---- MODULE Spec2Model ----
(***************************************************************************)
(* A model of the rust_md particle simulator (src/src/core).                *)
(*                                                                         *)
(* Numbers.  The program computes in f64.  The model computes in exact      *)
(* integers: a length is a whole number of position ticks, a time a whole   *)
(* number of time ticks, a force a whole number of force units.  Sums,      *)
(* differences, products and comparisons are exact.  The two operations     *)
(* with irrational results (f64::sqrt and the division inside               *)
(* Vector::normalize) are fixed-point with FracScale fractional steps and   *)
(* round toward zero.                                                       *)
(*                                                                         *)
(* Indices.  Rust vectors are 0-based, TLA+ sequences 1-based: particle id  *)
(* k of the program is id k+1 here.  Cell indices (ix, iy) stay 0-based.    *)
(*                                                                         *)
(* Option<T> is a sequence of length 0 (None) or 1 (Some).  A panic         *)
(* (assert!, expect, index out of range) is the result field ok = FALSE     *)
(* and, in a specification, pc = "panicked".                                *)
(***************************************************************************)
EXTENDS Integers, Sequences, FiniteSets, TLC

VARIABLES
    sim_data,    \* SimData (simdata.rs:41-65)
    universe,    \* Universe: is_running, iterations, max_time, max_iterations
    integrator,  \* the Universe's integrator: kind and dt
    monitors,    \* the Universe's monitors: name -> PositionMonitor
    pc,          \* where the caller / Universe::run stands
    arg,         \* the input of the operation under test (cutoff, pair list)
    result,      \* what the last operation returned (verlet lists, ...)
    trace        \* history: hook calls of the current step, counters, the initial momentum

vars == <<sim_data, universe, integrator, monitors, pc, arg, result, trace>>

\* The value of a variable that a specification does not use.
Unused == <<>>

None == <<>>
Some(v) == <<v>>
IsSome(o) == Len(o) = 1
Unwrap(o) == o[1]

Abs(a) == IF a < 0 THEN -a ELSE a
Min(a, b) == IF a < b THEN a ELSE b
Max(a, b) == IF a < b THEN b ELSE a

\* Division rounding toward zero, as a float-to-fixed-point rounding (b > 0).
TruncDiv(a, b) == IF a < 0 THEN -((-a) \div b) ELSE a \div b

RECURSIVE ISqrtIn(_, _, _)
ISqrtIn(n, lo, hi) ==
    IF lo >= hi THEN lo
    ELSE LET mid == (lo + hi + 1) \div 2
         IN  IF mid * mid <= n THEN ISqrtIn(n, mid, hi) ELSE ISqrtIn(n, lo, mid - 1)

\* floor(sqrt(n)) for 0 <= n < 2^31 (the root is at most 46340)
ISqrt(n) == ISqrtIn(n, 0, Min(n, 46340))

RECURSIVE SumSeq(_)
SumSeq(s) == IF s = <<>> THEN 0 ELSE Head(s) + SumSeq(Tail(s))

\* ss[lo] \o ... \o ss[hi], by halves
RECURSIVE ConcatRange(_, _, _)
ConcatRange(ss, lo, hi) ==
    IF lo > hi THEN <<>>
    ELSE IF lo = hi THEN ss[lo]
    ELSE LET mid == (lo + hi) \div 2
         IN  ConcatRange(ss, lo, mid) \o ConcatRange(ss, mid + 1, hi)

ConcatAll(ss) == ConcatRange(ss, 1, Len(ss))

(***************************************************************************)
(* Vector (vector.rs)                                                       *)
(***************************************************************************)
Vector(x, y) == [x |-> x, y |-> y]
VectorZero == Vector(0, 0)

(***************************************************************************)
(* Bounds and Topology (simdata.rs)                                         *)
(***************************************************************************)
MkBounds(xlo, xhi, ylo, yhi) == [xlo |-> xlo, xhi |-> xhi, ylo |-> ylo, yhi |-> yhi]
Width(b) == b.xhi - b.xlo
Height(b) == b.yhi - b.ylo

\* Bounds::is_in_bounds: strict at xhi, NOT strict at yhi.
IsInBounds(b, p) ==
    /\ b.xlo <= p.x
    /\ p.x < b.xhi
    /\ b.ylo <= p.y
    /\ p.y <= b.yhi

HarmonicTopology(wrap_x, wrap_y) == [kind |-> "Harmonic", wrap_x |-> wrap_x, wrap_y |-> wrap_y]
OpenTopology == [kind |-> "Open", wrap_x |-> FALSE, wrap_y |-> FALSE]

\* while *x < lo { *x += len }: the loop runs ceil((lo - x) / len) times.
WrapUp(x, lo, len) ==
    IF x < lo THEN x + len * ((lo - x + len - 1) \div len) ELSE x

\* while hi < *x { *x -= len }: the loop runs ceil((x - hi) / len) times, and
\* leaves x = hi where it is.
WrapDown(x, hi, len) ==
    IF hi < x THEN x - len * ((x - hi + len - 1) \div len) ELSE x

\* Topology::canonical_position.  pos is the point as the call leaves it, ok is
\* FALSE when the closing assert! panics.
CanonicalPosition(t, p, b) ==
    IF t.kind = "Open"
    THEN [pos |-> p, ok |-> TRUE]
    ELSE LET x == IF t.wrap_x
                  THEN WrapDown(WrapUp(p.x, b.xlo, Width(b)), b.xhi, Width(b))
                  ELSE p.x
             y == IF t.wrap_y
                  THEN WrapDown(WrapUp(p.y, b.ylo, Height(b)), b.yhi, Height(b))
                  ELSE p.y
         IN  [pos |-> Vector(x, y), ok |-> IsInBounds(b, Vector(x, y))]

(***************************************************************************)
(* SimData (simdata.rs)                                                     *)
(***************************************************************************)
Particle(position, radius, mass, velocity, force) ==
    [position |-> position, radius |-> radius, mass |-> mass,
     velocity |-> velocity, force |-> force]

\* SimData::new: always the fully wrapped harmonic topology.
SimDataNew(xlo, xhi, ylo, yhi) ==
    [radii |-> <<>>, masses |-> <<>>, positions |-> <<>>, velocities |-> <<>>,
     forces |-> <<>>, bounds |-> MkBounds(xlo, xhi, ylo, yhi),
     topology |-> HarmonicTopology(TRUE, TRUE), simulation_time |-> 0]

NumParticles(sd) == Len(sd.radii)
IsEmpty(sd) == sd.radii = <<>>

\* Mutant of AddParticle: the push to forces is left out.
AddParticleNoForce(sd, p) ==
    [sd EXCEPT !.radii = Append(@, p.radius),
               !.masses = Append(@, p.mass),
               !.positions = Append(@, p.position),
               !.velocities = Append(@, p.velocity)]

\* SimData::add_particle: pushes the particle's own force.
AddParticle(sd, p) ==
    [sd EXCEPT !.radii = Append(@, p.radius),
               !.masses = Append(@, p.mass),
               !.positions = Append(@, p.position),
               !.velocities = Append(@, p.velocity),
               !.forces = Append(@, p.force)]

\* SimData::add_particles: pushes Vector::zero() as the force.
RECURSIVE AddParticles(_, _)
AddParticles(sd, ps) ==
    IF ps = <<>> THEN sd
    ELSE AddParticles(
             [sd EXCEPT !.radii = Append(@, Head(ps).radius),
                        !.masses = Append(@, Head(ps).mass),
                        !.positions = Append(@, Head(ps).position),
                        !.velocities = Append(@, Head(ps).velocity),
                        !.forces = Append(@, VectorZero)],
             Tail(ps))

\* SimData::distance_sqr_between: minimum image on both axes, whatever the topology.
DistanceSqrBetween(sd, id1, id2) ==
    LET r1 == sd.positions[id1]
        r2 == sd.positions[id2]
        dx0 == Abs(r1.x - r2.x)
        dx == Min(dx0, Abs(dx0 - Width(sd.bounds)))
        dy0 == Abs(r1.y - r2.y)
        dy == Min(dy0, Abs(dy0 - Height(sd.bounds)))
    IN  dx * dx + dy * dy

\* SimData::canonical_positions: particle by particle, in place; the first failed
\* assert! ends the loop with that particle already moved.
CanonicalPositions(sd) ==
    LET n == NumParticles(sd)
        r == [i \in 1..n |-> CanonicalPosition(sd.topology, sd.positions[i], sd.bounds)]
        bad == {i \in 1..n : ~r[i].ok}
        last == IF bad = {} THEN n ELSE CHOOSE i \in bad : \A j \in bad : i <= j
    IN  [sd |-> [sd EXCEPT !.positions =
                     [i \in 1..n |-> IF i <= last THEN r[i].pos ELSE sd.positions[i]]],
         ok |-> bad = {}]

(***************************************************************************)
(* LinkedCells (linked_cells.rs)                                            *)
(***************************************************************************)
\* LinkedCells::new.  cell_width = width / num_x and cell_height = height / num_y
\* are kept as exact fractions.  ok is FALSE for the panic on target_size <= 0.
LinkedCellsNew(bounds, target_size) ==
    IF target_size <= 0
    THEN [ok |-> FALSE, lc |-> None]
    ELSE LET num_x == Max(1, Width(bounds) \div target_size)
             num_y == Max(1, Height(bounds) \div target_size)
         IN  [ok |-> TRUE,
              lc |-> Some([num_x |-> num_x, num_y |-> num_y,
                           cells |-> [k \in 1..(num_x * num_y) |-> <<>>],
                           bounds |-> bounds,
                           cell_width |-> [num |-> Width(bounds), den |-> num_x],
                           cell_height |-> [num |-> Height(bounds), den |-> num_y]])]

LinkedCellsNewForSimdata(sd, target_size) == LinkedCellsNew(sd.bounds, target_size)

\* LinkedCells::get_cell (and get_mut_cell): row iy, column ix at index num_x * iy + ix.
GetCell(lc, x, y) ==
    IF lc.num_x <= x \/ lc.num_y <= y
    THEN None
    ELSE Some(lc.cells[lc.num_x * y + x + 1])

\* LinkedCells::get_adjusted_cell.  The guard lets x + dx = num_x through; get_cell
\* then answers None.
GetAdjustedCell(lc, x, y, dx, dy) ==
    IF \/ (dx < 0 /\ x < -dx)
       \/ (dy < 0 /\ y < -dy)
       \/ (0 < dx /\ lc.num_x < x + dx)
       \/ (0 < dy /\ lc.num_y < y + dy)
    THEN None
    ELSE GetCell(lc, x + dx, y + dy)

\* Mutant of CastQuotient: the quotient is rounded to the nearest integer.
CastQuotientRounded(v, frac) ==
    IF v < 0 THEN 0 ELSE (2 * v * frac.den + frac.num) \div (2 * frac.num)

\* (v / (num/den)) as usize: the float-to-usize cast truncates and saturates at 0.
CastQuotient(v, frac) == IF v < 0 THEN 0 ELSE (v * frac.den) \div frac.num

\* LinkedCells::get_cell_indices
GetCellIndices(lc, x, y) ==
    [ix |-> CastQuotient(x - lc.bounds.xlo, lc.cell_width),
     iy |-> CastQuotient(y - lc.bounds.ylo, lc.cell_height)]

\* LinkedCells::add_particle; ok is FALSE for the panic
\* "A particle must belong to some cell".
LCAddParticle(lc, position, id) ==
    LET c == GetCellIndices(lc, position.x, position.y)
    IN  IF IsSome(GetCell(lc, c.ix, c.iy))
        THEN [ok |-> TRUE,
              lc |-> [lc EXCEPT !.cells[lc.num_x * c.iy + c.ix + 1] = Append(@, id)]]
        ELSE [ok |-> FALSE, lc |-> lc]

(***************************************************************************)
(* VerletLists (verlet_lists.rs)                                            *)
(***************************************************************************)
\* From<Vec<(usize, Vec<usize>)>> for VerletLists
VerletListsFrom(value) ==
    [verlet_lists |-> value,
     num_pairs |-> SumSeq([k \in 1..Len(value) |-> Len(value[k][2])])]

\* IntoIterator for &VerletLists
VLIntoIter == [head_count |-> 0, secondary_count |-> 0]

\* VLIter::next.  ok is FALSE when an index is out of range (the entry moved to
\* has an empty list).
VLIterNext(vl, it) ==
    LET v == vl.verlet_lists
        h == it.head_count
        s == it.secondary_count
    IN  IF h = Len(v)
        THEN [item |-> None, it |-> it, ok |-> TRUE]
        ELSE IF s < Len(v[h + 1][2])
        THEN [item |-> Some(<<v[h + 1][1], v[h + 1][2][s + 1]>>),
              it |-> [head_count |-> h, secondary_count |-> s + 1], ok |-> TRUE]
        ELSE IF h + 1 = Len(v)
        THEN [item |-> None, it |-> [head_count |-> h + 1, secondary_count |-> 0],
              ok |-> TRUE]
        ELSE IF 0 < Len(v[h + 2][2])
        THEN [item |-> Some(<<v[h + 2][1], v[h + 2][2][1]>>),
              it |-> [head_count |-> h + 1, secondary_count |-> 1], ok |-> TRUE]
        ELSE [item |-> None, it |-> [head_count |-> h + 1, secondary_count |-> 0],
              ok |-> FALSE]

\* The flat iteration `for (id1, id2) in &verlet_lists`: next() until None.
RECURSIVE CollectFrom(_, _)
CollectFrom(vl, it) ==
    LET r == VLIterNext(vl, it)
    IN  IF ~r.ok THEN [pairs |-> <<>>, ok |-> FALSE]
        ELSE IF ~IsSome(r.item) THEN [pairs |-> <<>>, ok |-> TRUE]
        ELSE LET rest == CollectFrom(vl, r.it)
             IN  [pairs |-> <<Unwrap(r.item)>> \o rest.pairs, ok |-> rest.ok]

FlatPairs(vl) == CollectFrom(vl, VLIntoIter)

\* A cutoff is an exact fraction num/den of position ticks.
Cutoff(num, den) == [num |-> num, den |-> den]

\* check_neighbors: rsqr < (radii[id1] + radii[id2] + cutoff)^2
CheckNeighbors(id1, ids_to_check, sd, cutoff) ==
    SelectSeq(ids_to_check,
              LAMBDA id2 :
                  LET rsqr == DistanceSqrBetween(sd, id1, id2)
                      rdiff == cutoff.den * (sd.radii[id1] + sd.radii[id2]) + cutoff.num
                  IN  cutoff.den * cutoff.den * rsqr < rdiff * rdiff)

\* Mutant of Stencil: the right-hand neighbour (1, 0) is looked into as well.
StencilWithRight == << <<-1, 1>>, <<0, 1>>, <<1, 1>>, <<-1, 0>>, <<1, 0>> >>

\* The neighbour cells create_verlet_lists looks into, in its order.
Stencil == << <<-1, 1>>, <<0, 1>>, <<1, 1>>, <<-1, 0>> >>

\* &cell.particle_ids[i + 1..] for the 0-based slot i, which is slot i here.
SameCellRest(ids, i) == SubSeq(ids, i + 1, Len(ids))

\* The neighbours of the particle in slot i of cell (ix, iy).
NeighborsOf(lc, sd, ix, iy, i, cutoff) ==
    LET cell == Unwrap(GetCell(lc, ix, iy))
        id1 == cell[i]
        around == [k \in 1..Len(Stencil) |->
                      LET c == GetAdjustedCell(lc, ix, iy, Stencil[k][1], Stencil[k][2])
                      IN  IF IsSome(c) THEN CheckNeighbors(id1, Unwrap(c), sd, cutoff)
                          ELSE <<>>]
    IN  ConcatAll(around) \o CheckNeighbors(id1, SameCellRest(cell, i), sd, cutoff)

\* The entries one cell contributes: (id1, neighbors) where neighbors is not empty.
CellEntries(lc, sd, ix, iy, cutoff) ==
    LET cell == Unwrap(GetCell(lc, ix, iy))
        all == [i \in 1..Len(cell) |-> <<cell[i], NeighborsOf(lc, sd, ix, iy, i, cutoff)>>]
    IN  SelectSeq(all, LAMBDA e : 0 < Len(e[2]))

MaxRadius(radii) == CHOOSE r \in {radii[k] : k \in 1..Len(radii)} :
                        \A k \in 1..Len(radii) : radii[k] <= r

\* The binning loop of create_verlet_lists, from particle id on.
RECURSIVE BinFrom(_, _, _)
BinFrom(lc, sd, id) ==
    IF id > NumParticles(sd) THEN [ok |-> TRUE, lc |-> lc]
    ELSE LET r == LCAddParticle(lc, sd.positions[id], id)
         IN  IF r.ok THEN BinFrom(r.lc, sd, id + 1) ELSE [ok |-> FALSE, lc |-> lc]

\* create_verlet_lists: for ix, for iy, for each slot of the cell.
CreateVerletLists(sd, cutoff) ==
    IF IsEmpty(sd)
    THEN [ok |-> TRUE, vl |-> VerletListsFrom(<<>>)]
    ELSE LET made == LinkedCellsNewForSimdata(sd, MaxRadius(sd.radii))
         IN  IF ~made.ok THEN [ok |-> FALSE, vl |-> VerletListsFrom(<<>>)]
             ELSE LET binned == BinFrom(Unwrap(made.lc), sd, 1)
                      lc == binned.lc
                      perCell == [k \in 1..(lc.num_x * lc.num_y) |->
                                     CellEntries(lc, sd, (k - 1) \div lc.num_y,
                                                 (k - 1) % lc.num_y, cutoff)]
                  IN  IF ~binned.ok THEN [ok |-> FALSE, vl |-> VerletListsFrom(<<>>)]
                      ELSE [ok |-> TRUE, vl |-> VerletListsFrom(ConcatAll(perCell))]

(***************************************************************************)
(* Units of the dynamics                                                    *)
(***************************************************************************)
\* Masses are 1..MaxMass.  A half-kick changes a velocity by F * dt / (2 m); with
\* PosScale position ticks per length unit, PosScale a multiple of every 2 m, that
\* change is a whole number of ticks per time tick, so the kick is exact.
MaxMass == 2

RECURSIVE Factorial(_)
Factorial(n) == IF n <= 1 THEN 1 ELSE n * Factorial(n - 1)

PosScale == 2 * Factorial(MaxMass)

\* Fractional steps of the fixed-point square root and normalisation.
FracScale == 100

(***************************************************************************)
(* Force (force.rs)                                                         *)
(***************************************************************************)
HardSphereForce(repulsion) == [repulsion |-> repulsion]

\* Vector::normalize, in FracScale-ths: the zero vector stays zero, any other
\* vector is divided by its length.
Normalize(v) ==
    IF v.x = 0 /\ v.y = 0 THEN v
    ELSE LET length == ISqrt((v.x * v.x + v.y * v.y) * FracScale * FracScale)
         IN  Vector(TruncDiv(v.x * FracScale * FracScale, length),
                    TruncDiv(v.y * FracScale * FracScale, length))

\* let overlap = sum_radii - f64::sqrt(sum_radii), in FracScale-ths of a length
\* unit; sum_radii is in position ticks.
Overlap(sum_radii) ==
    (sum_radii * FracScale) \div PosScale
        - ISqrt((sum_radii * FracScale * FracScale) \div PosScale)

\* Mutant of PairForce: the force has the opposite sign.
PairForceAttractive(force, unit, overlap) ==
    Vector(0 - TruncDiv(unit.x * force.repulsion * overlap, FracScale * FracScale),
           0 - TruncDiv(unit.y * force.repulsion * overlap, FracScale * FracScale))

\* unit * self.repulsion * overlap, rounded to whole force units.
PairForce(force, unit, overlap) ==
    Vector(TruncDiv(unit.x * force.repulsion * overlap, FracScale * FracScale),
           TruncDiv(unit.y * force.repulsion * overlap, FracScale * FracScale))

\* HardSphereForce::calculate_forces: forces[id1] -= F, then forces[id2] += F,
\* with the displacement positions[id2] - positions[id1] (no minimum image).
CalculateForces(force, sd, id1, id2) ==
    LET rsqr == DistanceSqrBetween(sd, id1, id2)
        sum_radii == sd.radii[id1] + sd.radii[id2]
    IN  IF rsqr < sum_radii * sum_radii
        THEN LET overlap == Overlap(sum_radii)
                 displacement == Vector(sd.positions[id2].x - sd.positions[id1].x,
                                        sd.positions[id2].y - sd.positions[id1].y)
                 unit == Normalize(displacement)
                 f == PairForce(force, unit, overlap)
                 f1 == [sd.forces EXCEPT ![id1] = Vector(@.x - f.x, @.y - f.y)]
                 f2 == [f1 EXCEPT ![id2] = Vector(@.x + f.x, @.y + f.y)]
             IN  [sd EXCEPT !.forces = f2]
        ELSE sd

\* Mutant of ClearForces: the buffer is not cleared.
ClearForcesSkipped(sd) == sd

\* The first loop of force_loop: clear the buffer of forces.
ClearForces(sd) == [sd EXCEPT !.forces = [i \in 1..Len(sd.forces) |-> VectorZero]]

RECURSIVE ApplyPairs(_, _, _)
ApplyPairs(force, sd, pairs) ==
    IF pairs = <<>> THEN sd
    ELSE ApplyPairs(force, CalculateForces(force, sd, Head(pairs)[1], Head(pairs)[2]),
                    Tail(pairs))

\* force_loop over the pairs an iterable yields.
ForceLoop(force, sd, pairs) == ApplyPairs(force, ClearForces(sd), pairs)

(***************************************************************************)
(* Integrator (integrator.rs, integrator/velocity_verlet.rs, overdamped.rs) *)
(***************************************************************************)
VelocityVerlet(dt) == [kind |-> "VelocityVerlet", dt |-> dt, damping_constant |-> 0]
OverdampedIntegratorNew(dt, damping_constant) ==
    [kind |-> "Overdamped", dt |-> dt, damping_constant |-> damping_constant]

GetTimestep(ig) == ig.dt

\* Mutant of UpdateVelocities: the factor 1 / m is left out.
UpdateVelocitiesNoMass(ig, sd) ==
    [sd EXCEPT !.velocities =
        [i \in 1..NumParticles(sd) |->
            Vector(sd.velocities[i].x + TruncDiv(sd.forces[i].x * ig.dt * PosScale, 2),
                   sd.velocities[i].y + TruncDiv(sd.forces[i].y * ig.dt * PosScale, 2))]]

\* VelocityVerlet::update_velocities: v += F * (dt / 2) * (1 / m)
UpdateVelocities(ig, sd) ==
    [sd EXCEPT !.velocities =
        [i \in 1..NumParticles(sd) |->
            Vector(sd.velocities[i].x
                       + TruncDiv(sd.forces[i].x * ig.dt * PosScale, 2 * sd.masses[i]),
                   sd.velocities[i].y
                       + TruncDiv(sd.forces[i].y * ig.dt * PosScale, 2 * sd.masses[i]))]]

\* VelocityVerlet::update_positions: x += v * dt, then canonical_positions().
UpdatePositions(ig, sd) ==
    CanonicalPositions(
        [sd EXCEPT !.positions =
            [i \in 1..NumParticles(sd) |->
                Vector(sd.positions[i].x + sd.velocities[i].x * ig.dt,
                       sd.positions[i].y + sd.velocities[i].y * ig.dt)]])

\* OverdampedIntegrator::post_forces: x += F * dt * (1 / m), then
\* canonical_positions(); damping_constant is not used.
OverdampedMove(ig, sd) ==
    CanonicalPositions(
        [sd EXCEPT !.positions =
            [i \in 1..NumParticles(sd) |->
                Vector(sd.positions[i].x
                           + TruncDiv(sd.forces[i].x * ig.dt * PosScale, sd.masses[i]),
                       sd.positions[i].y
                           + TruncDiv(sd.forces[i].y * ig.dt * PosScale, sd.masses[i]))]])

\* Integrator::pre_forces
IntegratorPreForces(ig, sd) ==
    IF ig.kind = "VelocityVerlet"
    THEN UpdatePositions(ig, UpdateVelocities(ig, sd))
    ELSE [sd |-> sd, ok |-> TRUE]

\* The calls of sim_data.canonical_positions() inside Integrator::pre_forces:
\* VelocityVerlet::update_positions ends with one, OverdampedIntegrator has none.
InnerCanonCalls(ig) == IF ig.kind = "VelocityVerlet" THEN 1 ELSE 0

\* Integrator::post_forces
IntegratorPostForces(ig, sd) ==
    IF ig.kind = "VelocityVerlet"
    THEN [sd |-> UpdateVelocities(ig, sd), ok |-> TRUE]
    ELSE OverdampedMove(ig, sd)

\* Mutant of IntegratorPostStep: the half step dt / 2 is added.
IntegratorPostStepHalf(ig, sd) == [sd EXCEPT !.simulation_time = @ + ig.dt \div 2]

\* Integrator::post_step: sim_data.simulation_time += self.dt
IntegratorPostStep(ig, sd) == [sd EXCEPT !.simulation_time = @ + ig.dt]

(***************************************************************************)
(* Monitor (monitor.rs)                                                     *)
(***************************************************************************)
PositionMonitorNew(snapshot_delay) ==
    [times |-> <<>>, positions |-> <<>>, snapshot_delay |-> snapshot_delay,
     last_snapshot_time |-> None]

\* PositionMonitor::post_step: pushes the positions; neither times nor
\* last_snapshot_time is written.
PositionMonitorPostStep(m, sd) ==
    IF \/ ~IsSome(m.last_snapshot_time)
       \/ m.snapshot_delay < sd.simulation_time - Unwrap(m.last_snapshot_time)
    THEN [m EXCEPT !.positions = Append(@, sd.positions)]
    ELSE m

(***************************************************************************)
(* Universe (universe.rs)                                                   *)
(***************************************************************************)
\* HardSphereForce { repulsion: 100.0 } of Universe::new
Repulsion == 100

\* create_verlet_lists(&mut self.sim_data, 0.1): a tenth of a length unit.
UniverseCutoff == Cutoff(PosScale, 10)

\* Universe::new, without the store and the integrator (separate variables).
UniverseNew ==
    [is_running |-> TRUE, iterations |-> 0, max_time |-> None,
     max_iterations |-> None, forces |-> HardSphereForce(Repulsion)]

\* The orders in which `for (_, monitor) in self.monitors.iter_mut()` may visit
\* the HashMap's entries.
Orders(names) ==
    {o \in [1..Cardinality(names) -> names] :
        \A a, b \in 1..Cardinality(names) : a # b => o[a] # o[b]}

MonitorCalls(hook, order) == [k \in 1..Len(order) |-> [hook |-> hook, who |-> order[k]]]
Call(hook) == <<[hook |-> hook, who |-> "universe"]>>

\* Mutant of CheckTermination: max_time <= simulation_time stops the loop.
CheckTerminationAtMaxTime(u, sd) ==
    LET by_time == IsSome(u.max_time) /\ Unwrap(u.max_time) <= sd.simulation_time
        by_iterations == IsSome(u.max_iterations)
                             /\ Unwrap(u.max_iterations) <= u.iterations
    IN  [u EXCEPT !.is_running = IF by_time \/ by_iterations THEN FALSE ELSE @]

\* The termination checks at the end of a step of Universe::run.
CheckTermination(u, sd) ==
    LET by_time == IsSome(u.max_time) /\ Unwrap(u.max_time) < sd.simulation_time
        by_iterations == IsSome(u.max_iterations)
                             /\ Unwrap(u.max_iterations) <= u.iterations
    IN  [u EXCEPT !.is_running = IF by_time \/ by_iterations THEN FALSE ELSE @]

\* Sum of masses[i] * velocities[i].
Momentum(sd) ==
    Vector(SumSeq([i \in 1..NumParticles(sd) |-> sd.masses[i] * sd.velocities[i].x]),
           SumSeq([i \in 1..NumParticles(sd) |-> sd.masses[i] * sd.velocities[i].y]))

SumForces(sd) ==
    Vector(SumSeq([i \in 1..Len(sd.forces) |-> sd.forces[i].x]),
           SumSeq([i \in 1..Len(sd.forces) |-> sd.forces[i].y]))

(***************************************************************************)
(* Spec: a Universe driven through run_until                                *)
(***************************************************************************)
DomainSide == 10      \* the domain is (0, DomainSide, 0, DomainSide) length units
MaxDt == 2            \* timesteps 1..MaxDt time ticks
SnapDelay == 5        \* snapshot_delay of the monitor "Positions", in time ticks
IterationCap == 3     \* max_iterations, when set
LongRun == 19         \* the longer of the two run_until times
MaxRuns == 2          \* run_until calls made by the caller

\* The point (x2 / 2, y2 / 2) in length units.
At(x2, y2) == Vector((x2 * PosScale) \div 2, (y2 * PosScale) \div 2)

\* Two disks of radius 1: far apart; overlapping head-on; overlapping on a
\* diagonal; overlapping across the periodic seam.
Layouts == {<<At(4, 10), At(16, 10)>>, <<At(8, 10), At(11, 10)>>,
            <<At(8, 10), At(10, 12)>>, <<At(19, 10), At(1, 10)>>}
StartVelocities == {<<VectorZero, VectorZero>>, <<Vector(1, 0), Vector(0 - 2, 1)>>}
StartMasses == [1..2 -> 1..MaxMass]
RunTimes == {1, LongRun}

MonitorSets ==
    {[n \in {} |-> PositionMonitorNew(0)],
     [n \in {"Positions"} |-> PositionMonitorNew(SnapDelay)],
     [n \in {"Positions", "Dense"} |->
         IF n = "Positions" THEN PositionMonitorNew(SnapDelay) ELSE PositionMonitorNew(0)]}

\* Universe::new, with_integrator, add_monitor, sim_data.add_particles.  The field
\* max_iterations is private and Universe::new leaves it None; the set value is
\* a Universe built inside the module.
Init ==
    /\ \E lay \in Layouts, vel \in StartVelocities, m \in StartMasses :
           sim_data = AddParticles(
                          SimDataNew(0, DomainSide * PosScale, 0, DomainSide * PosScale),
                          [k \in 1..2 |->
                              Particle(lay[k], PosScale, m[k], vel[k], VectorZero)])
    /\ \E dt \in 1..MaxDt : integrator = VelocityVerlet(dt)
    /\ monitors \in MonitorSets
    /\ \E cap \in {None, Some(IterationCap)} :
           universe = [UniverseNew EXCEPT !.max_iterations = cap]
    /\ pc = "idle"
    /\ arg = None
    /\ result = VerletListsFrom(<<>>)
    /\ trace = [hooks |-> <<>>, run_canon_calls |-> 0, canon_calls |-> 0,
                steps |-> 0, runs |-> 0,
                momentum0 |-> Momentum(sim_data),
                start |-> [positions |-> sim_data.positions,
                           velocities |-> sim_data.velocities],
                snaps |-> [n \in DOMAIN monitors |-> <<>>]]

\* Universe::run_until(time): self.max_time = Some(time); self.run() begins.
RunUntil(time) ==
    /\ pc = "idle"
    /\ trace.runs < MaxRuns
    /\ universe' = [universe EXCEPT !.max_time = Some(time)]
    /\ pc' = "entry"
    /\ arg' = Some(time)
    /\ trace' = [trace EXCEPT !.runs = @ + 1, !.steps = 0, !.run_canon_calls = 0,
                              !.canon_calls = 0, !.hooks = <<>>]
    /\ UNCHANGED <<sim_data, integrator, monitors, result>>

\* run: self.sim_data.canonical_positions() before the loop.
RunCanonicalPositions ==
    /\ pc = "entry"
    /\ LET r == CanonicalPositions(sim_data)
       IN  /\ sim_data' = r.sd
           /\ pc' = IF r.ok THEN "loop" ELSE "panicked"
    /\ trace' = [trace EXCEPT !.run_canon_calls = @ + 1, !.canon_calls = @ + 1]
    /\ UNCHANGED <<universe, integrator, monitors, arg, result>>

\* run: `while self.is_running` holds, a step begins.
BeginStep ==
    /\ pc = "loop"
    /\ universe.is_running
    /\ pc' = "pre_step"
    /\ trace' = [trace EXCEPT !.hooks = <<>>, !.steps = @ + 1]
    /\ UNCHANGED <<sim_data, universe, integrator, monitors, arg, result>>

\* run: `while self.is_running` fails, run and run_until return.
Return ==
    /\ pc = "loop"
    /\ ~universe.is_running
    /\ pc' = "idle"
    /\ UNCHANGED <<sim_data, universe, integrator, monitors, arg, result, trace>>

\* Universe::pre_step: every monitor's pre_step (a no-op of PositionMonitor).
PreStep ==
    /\ pc = "pre_step"
    /\ \E o \in Orders(DOMAIN monitors) :
           trace' = [trace EXCEPT !.hooks = @ \o MonitorCalls("monitor.pre_step", o)]
    /\ pc' = "pre_forces"
    /\ UNCHANGED <<sim_data, universe, integrator, monitors, arg, result>>

\* Mutant of PreForces: the monitors run before the integrator.
PreForcesMonitorsFirst ==
    /\ pc = "pre_forces"
    /\ LET r == IntegratorPreForces(integrator, sim_data)
       IN  /\ sim_data' = r.sd
           /\ pc' = IF r.ok THEN "forces" ELSE "panicked"
           /\ \E o \in Orders(DOMAIN monitors) :
                  trace' = [trace EXCEPT
                               !.canon_calls = @ + InnerCanonCalls(integrator),
                               !.hooks = @ \o MonitorCalls("monitor.pre_forces", o)
                                           \o Call("integrator.pre_forces")]
    /\ UNCHANGED <<universe, integrator, monitors, arg, result>>

\* Universe::pre_forces: integrator.pre_forces, then every monitor's pre_forces.
PreForces ==
    /\ pc = "pre_forces"
    /\ LET r == IntegratorPreForces(integrator, sim_data)
       IN  /\ sim_data' = r.sd
           /\ IF r.ok
              THEN /\ pc' = "forces"
                   /\ \E o \in Orders(DOMAIN monitors) :
                          trace' = [trace EXCEPT
                                       !.canon_calls = @ + InnerCanonCalls(integrator),
                                       !.hooks = @ \o Call("integrator.pre_forces")
                                                   \o MonitorCalls("monitor.pre_forces", o)]
              ELSE /\ pc' = "panicked"
                   /\ trace' = [trace EXCEPT
                                   !.canon_calls = @ + InnerCanonCalls(integrator),
                                   !.hooks = @ \o Call("integrator.pre_forces")]
    /\ UNCHANGED <<universe, integrator, monitors, arg, result>>

\* Universe::forces: create_verlet_lists, then force_loop over the flat iterator.
Forces ==
    /\ pc = "forces"
    /\ LET made == CreateVerletLists(sim_data, UniverseCutoff)
           flat == FlatPairs(made.vl)
       IN  IF made.ok /\ flat.ok
           THEN /\ sim_data' = ForceLoop(universe.forces, sim_data, flat.pairs)
                /\ result' = made.vl
                /\ pc' = "post_forces"
                /\ trace' = [trace EXCEPT !.hooks =
                                @ \o Call("create_verlet_lists") \o Call("force_loop")]
           ELSE /\ pc' = "panicked"
                /\ trace' = [trace EXCEPT !.hooks = @ \o Call("create_verlet_lists")]
                /\ UNCHANGED <<sim_data, result>>
    /\ UNCHANGED <<universe, integrator, monitors, arg>>

\* Universe::post_forces: integrator.post_forces, then every monitor's post_forces.
PostForces ==
    /\ pc = "post_forces"
    /\ LET r == IntegratorPostForces(integrator, sim_data)
       IN  /\ sim_data' = r.sd
           /\ IF r.ok
              THEN /\ pc' = "post_step"
                   /\ \E o \in Orders(DOMAIN monitors) :
                          trace' = [trace EXCEPT !.hooks =
                                       @ \o Call("integrator.post_forces")
                                         \o MonitorCalls("monitor.post_forces", o)]
              ELSE /\ pc' = "panicked"
                   /\ trace' = [trace EXCEPT !.hooks = @ \o Call("integrator.post_forces")]
    /\ UNCHANGED <<universe, integrator, monitors, arg, result>>

\* Universe::post_step: integrator.post_step, then every monitor's post_step.
\* trace.snaps notes the simulation time of every push to a monitor's positions.
PostStep ==
    /\ pc = "post_step"
    /\ sim_data' = IntegratorPostStep(integrator, sim_data)
    /\ monitors' = [n \in DOMAIN monitors |-> PositionMonitorPostStep(monitors[n], sim_data')]
    /\ \E o \in Orders(DOMAIN monitors) :
           trace' = [trace EXCEPT
                        !.hooks = @ \o Call("integrator.post_step")
                                    \o MonitorCalls("monitor.post_step", o),
                        !.snaps = [n \in DOMAIN monitors |->
                                      IF Len(monitors'[n].positions) > Len(monitors[n].positions)
                                      THEN Append(@[n], sim_data'.simulation_time)
                                      ELSE @[n]]]
    /\ pc' = "end_step"
    /\ UNCHANGED <<universe, integrator, arg, result>>

\* run: self.iterations += 1, then the termination checks.
EndStep ==
    /\ pc = "end_step"
    /\ universe' = CheckTermination([universe EXCEPT !.iterations = @ + 1], sim_data)
    /\ trace' = [trace EXCEPT !.hooks = @ \o Call("iterations += 1")]
    /\ pc' = "loop"
    /\ UNCHANGED <<sim_data, integrator, monitors, arg, result>>

Next ==
    \/ \E time \in RunTimes : RunUntil(time)
    \/ RunCanonicalPositions
    \/ BeginStep
    \/ Return
    \/ PreStep
    \/ PreForces
    \/ Forces
    \/ PostForces
    \/ PostStep
    \/ EndStep

Spec == Init /\ [][Next]_vars

(***************************************************************************)
(* Claims about the step loop (Spec)                                        *)
(***************************************************************************)
StepPcs == {"pre_step", "pre_forces", "forces", "post_forces", "post_step", "end_step"}

Repeat(n, hook) == [k \in 1..n |-> hook]

\* The calls of one step with n monitors, in the order of the claim.
ExpectedHooks(n) ==
    Repeat(n, "monitor.pre_step")
        \o <<"integrator.pre_forces">> \o Repeat(n, "monitor.pre_forces")
        \o <<"create_verlet_lists", "force_loop">>
        \o <<"integrator.post_forces">> \o Repeat(n, "monitor.post_forces")
        \o <<"integrator.post_step">> \o Repeat(n, "monitor.post_step")
        \o <<"iterations += 1">>

HookNames(h) == [k \in 1..Len(h) |-> h[k].hook]
IsPrefix(a, b) == Len(a) <= Len(b) /\ a = SubSeq(b, 1, Len(a))
TimesCalled(h, hook, who) ==
    Cardinality({k \in 1..Len(h) : h[k].hook = hook /\ h[k].who = who})

\* Within a step the hooks fire in the order monitors' pre_step,
\* integrator.pre_forces, monitors' pre_forces, Verlet-list construction,
\* force_loop, integrator.post_forces, monitors' post_forces,
\* integrator.post_step, monitors' post_step, iterations += 1, each once (each
\* monitor once per hook).
HooksInOrder ==
    /\ IsPrefix(HookNames(trace.hooks), ExpectedHooks(Cardinality(DOMAIN monitors)))
    /\ (pc = "loop" /\ trace.steps > 0) =>
           /\ HookNames(trace.hooks) = ExpectedHooks(Cardinality(DOMAIN monitors))
           /\ \A n \in DOMAIN monitors :
                  \A hook \in {"monitor.pre_step", "monitor.pre_forces",
                               "monitor.post_forces", "monitor.post_step"} :
                      TimesCalled(trace.hooks, hook, n) = 1

InsideRun == pc \in StepPcs \cup {"loop"} \/ (pc = "idle" /\ trace.runs > 0)

\* C4 (as amended): the hooks of a step fire in the fixed order, each once; run
\* itself calls sim_data.canonical_positions() once per run call, before the
\* first iteration; VelocityVerlet's pre_forces calls it once more in every
\* iteration, so after n whole steps of a run it has been called 1 + n times.
C4_HookOrder ==
    /\ HooksInOrder
    /\ pc = "entry" => (trace.run_canon_calls = 0 /\ trace.steps = 0)
    /\ InsideRun => trace.run_canon_calls = 1
    /\ pc \in {"loop", "idle"} /\ trace.runs > 0 =>
           trace.canon_calls = 1 + trace.steps * InnerCanonCalls(integrator)

\* C4 (as stated): the hooks of a step fire in the fixed order, each once, and
\* sim_data.canonical_positions() is called exactly once per run call, before
\* the first iteration.
C4_CanonicalOncePerRun ==
    /\ HooksInOrder
    /\ pc = "entry" => trace.canon_calls = 0
    /\ InsideRun => trace.canon_calls = 1

\* C4 witness: the second step of a run with two monitors has ended.
C4_Witness ==
    /\ pc = "loop"
    /\ trace.steps = 2
    /\ Cardinality(DOMAIN monitors) = 2
    /\ Len(trace.hooks) = 14

\* The stopping condition of the claim, at the end of a step.
StopCondition ==
    \/ (IsSome(universe.max_time) /\ sim_data.simulation_time > Unwrap(universe.max_time))
    \/ (IsSome(universe.max_iterations)
            /\ universe.iterations >= Unwrap(universe.max_iterations))

\* C5: run stops after a step exactly when, at the end of that step, max_time is
\* set and simulation_time > max_time, or max_iterations is set and
\* iterations >= max_iterations; no step runs with is_running false, and run
\* returns only with is_running false.
C5_StoppingRule ==
    /\ (pc = "loop" /\ trace.steps > 0) => (universe.is_running <=> ~StopCondition)
    /\ pc \in StepPcs => universe.is_running
    /\ (pc = "idle" /\ trace.runs > 0) => ~universe.is_running

\* C5 witness: a run without an iteration cap has returned after more than one
\* step, the last of which ended exactly one timestep past max_time.
C5_Witness ==
    /\ pc = "idle"
    /\ trace.steps > 1
    /\ ~IsSome(universe.max_iterations)
    /\ sim_data.simulation_time = Unwrap(universe.max_time) + integrator.dt

\* C6: simulation_time never decreases, and at the end of every step it equals
\* iterations * dt.
C6_TimeIsIterationsTimesDt ==
    /\ [](pc \in {"loop", "idle"} =>
              sim_data.simulation_time = universe.iterations * integrator.dt)
    /\ [][sim_data'.simulation_time >= sim_data.simulation_time]_vars

\* C6 witness: after the second run_until call has returned, several steps of
\* two ticks each have been made.
C6_Witness ==
    /\ pc = "idle"
    /\ trace.runs = 2
    /\ integrator.dt = 2
    /\ universe.iterations >= 3
    /\ sim_data.simulation_time = 2 * universe.iterations

Last(s) == s[Len(s)]

\* C7: a monitor records a snapshot on a post_step exactly when it has none yet
\* or simulation_time minus the time of its last recorded snapshot exceeds
\* snapshot_delay; with snapshot_delay = 5 and dt = 1, 20 steps record the four
\* snapshots of times 1, 7, 13, 19.  (trace.snaps holds the recording times.)
C7_SnapshotCadence ==
    \A n \in DOMAIN monitors :
        LET ts == trace.snaps[n]
            delay == monitors[n].snapshot_delay
        IN  /\ sim_data.simulation_time > 0 => (Len(ts) >= 1 /\ ts[1] = integrator.dt)
            /\ \A k \in 1..(Len(ts) - 1) :
                   /\ ts[k + 1] - ts[k] > delay
                   /\ ts[k + 1] - integrator.dt - ts[k] <= delay
            /\ Len(ts) >= 1 => sim_data.simulation_time - Last(ts) <= delay
            /\ (delay = 5 /\ integrator.dt = 1 /\ universe.iterations = 20 /\ pc = "loop")
                   => ts = <<1, 7, 13, 19>>

\* C8: every recorded snapshot appends one entry to times and one to positions
\* and sets last_snapshot_time to the current simulation_time: the two have one
\* length, times[k] is the time at which positions[k] was copied, and
\* positions[k] has one entry per particle.
C8_SnapshotRecords ==
    \A n \in DOMAIN monitors :
        /\ Len(monitors[n].times) = Len(monitors[n].positions)
        /\ monitors[n].times = trace.snaps[n]
        /\ Len(monitors[n].positions) > 0 =>
               monitors[n].last_snapshot_time = Some(Last(trace.snaps[n]))
        /\ \A k \in 1..Len(monitors[n].positions) :
               Len(monitors[n].positions[k]) = NumParticles(sim_data)

\* C10: under VelocityVerlet, from a zero force buffer, the total momentum at the
\* end of every step equals the momentum before the first step.
C10_MomentumConserved ==
    (integrator.kind = "VelocityVerlet" /\ pc \in {"loop", "idle"}) =>
        Momentum(sim_data) = trace.momentum0

\* C10 witness: two steps have ended, the two masses differ, the particles push
\* each other, and the momentum is not zero.
C10_Witness ==
    /\ pc = "loop"
    /\ trace.steps >= 2
    /\ sim_data.masses[1] # sim_data.masses[2]
    /\ sim_data.forces[1] # VectorZero
    /\ sim_data.velocities[1] # sim_data.velocities[2]
    /\ trace.momentum0 # VectorZero

(***************************************************************************)
(* SpecForce: force_loop on arbitrary pair sequences and force buffers      *)
(***************************************************************************)
ForceParticles == 3
MaxPairs == 2

\* Disks of radius 1 in the domain of Spec: two overlap plainly, two overlap
\* across the periodic seam; the disks take the points in turn, or all sit on
\* one point.  result keeps the buffer as it was before the call.
ForcePoints == <<At(1, 10), At(3, 11), At(19, 10)>>
ForceLayouts ==
    {[k \in 1..ForceParticles |-> ForcePoints[((k + s) % Len(ForcePoints)) + 1]] :
        s \in 1..Len(ForcePoints)}
    \cup {[k \in 1..ForceParticles |-> ForcePoints[1]]}
ForceBuffers == {[i \in 1..ForceParticles |-> VectorZero],
                 [i \in 1..ForceParticles |-> Vector(3 * i, 0 - 1)]}
PairSeqs == UNION {[1..n -> (1..ForceParticles) \X (1..ForceParticles)] : n \in 0..MaxPairs}

RECURSIVE AddEach(_, _)
AddEach(sd, ps) == IF ps = <<>> THEN sd ELSE AddEach(AddParticle(sd, Head(ps)), Tail(ps))

InitForce ==
    /\ \E pos \in ForceLayouts, buf \in ForceBuffers :
           sim_data = AddEach(
                          SimDataNew(0, DomainSide * PosScale, 0, DomainSide * PosScale),
                          [k \in 1..ForceParticles |->
                              Particle(pos[k], PosScale, 1, VectorZero, buf[k])])
    /\ arg \in PairSeqs
    /\ result = sim_data.forces
    /\ pc = "ready"
    /\ universe = UniverseNew
    /\ integrator = Unused
    /\ monitors = Unused
    /\ trace = Unused

\* The caller runs force_loop(&force, &mut sim_data, pairs).
CallForceLoop ==
    /\ pc = "ready"
    /\ sim_data' = ForceLoop(universe.forces, sim_data, arg)
    /\ pc' = "returned"
    /\ UNCHANGED <<universe, integrator, monitors, arg, result, trace>>

NextForce == CallForceLoop

SpecForce == InitForce /\ [][NextForce]_vars

\* C9: after force_loop with HardSphereForce, whatever the pairs and whatever
\* the buffer held before, the forces sum to the zero vector.
C9_ForcesSumToZero ==
    pc = "returned" => SumForces(sim_data) = VectorZero

\* C9 witness: the buffer was not zero before the call, two pairs were given,
\* and some particle ends with a force.
C9_Witness ==
    /\ pc = "returned"
    /\ SumForces([forces |-> result]) # VectorZero
    /\ Len(arg) = 2
    /\ \E i \in 1..ForceParticles : sim_data.forces[i] # VectorZero

(***************************************************************************)
(* SpecCanon: SimData::canonical_positions on arbitrary starting positions  *)
(***************************************************************************)
\* The domain is (CanonLo, CanonLo + CanonSpan) on both axes; a start lies up to
\* CanonReach axis lengths outside it.
CanonSpan == 3
CanonReach == 2
CanonLo == 0 - 1
CanonHi == CanonLo + CanonSpan
CanonCoords == (CanonLo - CanonReach * CanonSpan)..(CanonHi + CanonReach * CanonSpan)
CanonPoints == {Vector(x, y) : x \in CanonCoords, y \in CanonCoords}
\* A second particle, when there is one: inside, on each upper edge, far outside.
CanonSecond == {Vector(CanonLo, CanonLo), Vector(CanonHi, CanonLo),
                Vector(CanonLo, CanonHi), Vector(CanonHi + CanonSpan + 1, CanonLo - 1)}
CanonStarts == {<<p>> : p \in CanonPoints}
                   \cup {<<p, q>> : p \in CanonPoints, q \in CanonSecond}

InitCanon ==
    /\ \E ps \in CanonStarts :
           sim_data = AddParticles(SimDataNew(CanonLo, CanonHi, CanonLo, CanonHi),
                                   [k \in 1..Len(ps) |->
                                       Particle(ps[k], 1, 1, VectorZero, VectorZero)])
    /\ pc = "ready"
    /\ arg = sim_data.positions
    /\ result = Unused
    /\ universe = Unused
    /\ integrator = Unused
    /\ monitors = Unused
    /\ trace = Unused

\* The caller runs sim_data.canonical_positions().
CallCanonicalPositions ==
    /\ pc = "ready"
    /\ LET r == CanonicalPositions(sim_data)
       IN  /\ sim_data' = r.sd
           /\ pc' = IF r.ok THEN "returned" ELSE "panicked"
    /\ UNCHANGED <<universe, integrator, monitors, arg, result, trace>>

NextCanon == CallCanonicalPositions

SpecCanon == InitCanon /\ [][NextCanon]_vars

\* The half-open domain of the specification: xlo <= x < xhi and ylo <= y < yhi.
InHalfOpenBounds(b, p) ==
    /\ b.xlo <= p.x /\ p.x < b.xhi
    /\ b.ylo <= p.y /\ p.y < b.yhi

\* C1: under the fully wrapped periodic topology canonical_positions() never
\* fails, and once it has returned every position (x, y) has xlo <= x < xhi and
\* ylo <= y < yhi.
C1_CanonicalInHalfOpenBounds ==
    /\ pc # "panicked"
    /\ pc = "returned" =>
           \A i \in 1..NumParticles(sim_data) :
               InHalfOpenBounds(sim_data.bounds, sim_data.positions[i])

(***************************************************************************)
(* SpecVL: create_verlet_lists on arbitrary in-bounds populations           *)
(***************************************************************************)
\* Domains: a square of side VLSpan, and strips VLSpan by VLStrip (one row or one
\* column of cells when the largest radius exceeds half of VLStrip).
VLSpan == 6
VLStrip == 2
VLMaxRadius == 2
VLMaxCutoff == 1

VLPoints(b) == {Vector(x, y) : x \in b.xlo..(b.xhi - 1), y \in b.ylo..(b.yhi - 1)}
VLSquare == MkBounds(0, VLSpan, 0, VLSpan)
VLRow == MkBounds(0, VLSpan, 0, VLStrip)
VLColumn == MkBounds(0, VLStrip, 0, VLSpan)

VLStrips == {VLRow, VLColumn}
VLExtremeRadii == {1, VLMaxRadius}

\* The store of SimData::new on the bounds b after add_particles.
VLStore(b, pos, radii) ==
    AddParticles(SimDataNew(b.xlo, b.xhi, b.ylo, b.yhi),
                 [k \in 1..Len(pos) |->
                     Particle(pos[k], radii[k], 1, VectorZero, VectorZero)])

\* Two particles anywhere in the square or in a strip, or three particles of one
\* radius in a strip.
InitVL ==
    /\ \/ \E p \in VLPoints(VLSquare), q \in VLPoints(VLSquare),
             r1 \in VLExtremeRadii, r2 \in VLExtremeRadii :
              sim_data = VLStore(VLSquare, <<p, q>>, <<r1, r2>>)
       \/ \E b \in VLStrips :
              \E p \in VLPoints(b), q \in VLPoints(b),
                 r1 \in 1..VLMaxRadius, r2 \in 1..VLMaxRadius :
                  sim_data = VLStore(b, <<p, q>>, <<r1, r2>>)
       \/ \E b \in VLStrips :
              \E p \in VLPoints(b), q \in VLPoints(b), s \in VLPoints(b),
                 r \in VLExtremeRadii :
                  sim_data = VLStore(b, <<p, q, s>>, <<r, r, r>>)
    /\ \E c \in {0, VLMaxCutoff} : arg = Cutoff(c, 1)
    /\ pc = "ready"
    /\ result = Unused
    /\ universe = Unused
    /\ integrator = Unused
    /\ monitors = Unused
    /\ trace = Unused

\* The caller builds the lists and drains the flat iterator.
CallCreateVerletLists ==
    /\ pc = "ready"
    /\ LET r == CreateVerletLists(sim_data, arg)
           flat == FlatPairs(r.vl)
       IN  /\ result' = [vl |-> r.vl, pairs |-> flat.pairs]
           /\ pc' = IF r.ok /\ flat.ok THEN "returned" ELSE "panicked"
    /\ UNCHANGED <<sim_data, universe, integrator, monitors, arg, trace>>

NextVL == CallCreateVerletLists

SpecVL == InitVL /\ [][NextVL]_vars

\* How often the unordered pair {i, j} is yielded.
TimesYielded(pairs, i, j) ==
    Cardinality({k \in 1..Len(pairs) : {pairs[k][1], pairs[k][2]} = {i, j}})

PlainDistanceSqr(sd, i, j) ==
    (sd.positions[i].x - sd.positions[j].x) * (sd.positions[i].x - sd.positions[j].x)
    + (sd.positions[i].y - sd.positions[j].y) * (sd.positions[i].y - sd.positions[j].y)

\* Every axial separation is at most half the axis length.
WithinHalfDomain(sd) ==
    \A i, j \in 1..NumParticles(sd) :
        /\ 2 * Abs(sd.positions[i].x - sd.positions[j].x) <= Width(sd.bounds)
        /\ 2 * Abs(sd.positions[i].y - sd.positions[j].y) <= Height(sd.bounds)

Interacting(sd, cutoff, i, j) ==
    cutoff.den * cutoff.den * PlainDistanceSqr(sd, i, j)
        < (cutoff.den * (sd.radii[i] + sd.radii[j]) + cutoff.num)
              * (cutoff.den * (sd.radii[i] + sd.radii[j]) + cutoff.num)

\* C2: pair completeness.  When all axial separations are at most half the axis
\* length, every unordered pair {i, j} with
\* distance_sqr(i, j) < (radii[i] + radii[j] + cutoff)^2 is yielded exactly once by
\* the flat iterator of create_verlet_lists.
C2_PairCompleteness ==
    (pc = "returned" /\ WithinHalfDomain(sim_data)) =>
        \A i, j \in 1..NumParticles(sim_data) :
            (i < j /\ Interacting(sim_data, arg, i, j)) =>
                TimesYielded(result.pairs, i, j) = 1

\* C3: no self-pairs and no double counting.  Every pair (i, j) the flat
\* iterator yields has i # j, and no unordered pair {i, j} is yielded twice,
\* whatever the grid (one row or one column of cells included).
C3_NoSelfNoDouble ==
    pc = "returned" =>
        /\ \A k \in 1..Len(result.pairs) : result.pairs[k][1] # result.pairs[k][2]
        /\ \A i, j \in 1..NumParticles(sim_data) : TimesYielded(result.pairs, i, j) <= 1

\* C3 witness: a grid of one row of cells whose three particles yield three pairs.
C3_Witness ==
    /\ pc = "returned"
    /\ Height(sim_data.bounds) \div MaxRadius(sim_data.radii) <= 1
    /\ Width(sim_data.bounds) \div MaxRadius(sim_data.radii) > 1
    /\ Len(result.pairs) = 3

(***************************************************************************)
(* SpecStore: a SimData driven through arbitrary sequences of operations    *)
(***************************************************************************)
StoreOps == 4         \* operations made on the store

\* Disks of radius 1: two that overlap, one outside the domain; one carries a
\* force, one a velocity.
StoreParticles ==
    {Particle(At(8, 10), PosScale, 1, VectorZero, VectorZero),
     Particle(At(11, 10), PosScale, 2, VectorZero, Vector(3, 0 - 1)),
     Particle(At(0 - 3, 25), PosScale, 1, Vector(1, 0), VectorZero)}
StoreBatches ==
    {<<>>,
     <<Particle(At(8, 10), PosScale, 1, VectorZero, VectorZero),
       Particle(At(11, 10), PosScale, 2, VectorZero, Vector(3, 0 - 1))>>,
     <<Particle(At(0 - 3, 25), PosScale, 1, Vector(1, 0), Vector(0, 2))>>}
StorePairSeqs == {<<>>, << <<1, 2>> >>, << <<1, 1>> >>, << <<2, 1>>, <<1, 2>> >>}

\* SimData::new; trace.before is the store as the last operation found it.
InitStore ==
    /\ sim_data = SimDataNew(0, DomainSide * PosScale, 0, DomainSide * PosScale)
    /\ integrator \in {VelocityVerlet(1), OverdampedIntegratorNew(1, 1)}
    /\ universe = UniverseNew
    /\ monitors = Unused
    /\ pc = "ready"
    /\ arg = None
    /\ result = Unused
    /\ trace = [ops |-> 0, last |-> "new", before |-> sim_data]

Noted(op) == [ops |-> trace.ops + 1, last |-> op, before |-> sim_data]

\* sim_data.add_particle(&p)
StoreAddParticle(p) ==
    /\ pc = "ready" /\ trace.ops < StoreOps
    /\ sim_data' = AddParticle(sim_data, p)
    /\ arg' = p
    /\ trace' = Noted("add_particle")
    /\ UNCHANGED <<universe, integrator, monitors, pc, result>>

\* sim_data.add_particles(&ps)
StoreAddParticles(ps) ==
    /\ pc = "ready" /\ trace.ops < StoreOps
    /\ sim_data' = AddParticles(sim_data, ps)
    /\ arg' = ps
    /\ trace' = Noted("add_particles")
    /\ UNCHANGED <<universe, integrator, monitors, pc, result>>

\* sim_data.canonical_positions()
StoreCanonicalPositions ==
    /\ pc = "ready" /\ trace.ops < StoreOps
    /\ LET r == CanonicalPositions(sim_data)
       IN  /\ sim_data' = r.sd
           /\ pc' = IF r.ok THEN "ready" ELSE "panicked"
    /\ trace' = Noted("canonical_positions")
    /\ UNCHANGED <<universe, integrator, monitors, arg, result>>

\* integrator.pre_forces(&mut sim_data)
StorePreForces ==
    /\ pc = "ready" /\ trace.ops < StoreOps
    /\ LET r == IntegratorPreForces(integrator, sim_data)
       IN  /\ sim_data' = r.sd
           /\ pc' = IF r.ok THEN "ready" ELSE "panicked"
    /\ trace' = Noted("pre_forces")
    /\ UNCHANGED <<universe, integrator, monitors, arg, result>>

\* integrator.post_forces(&mut sim_data)
StorePostForces ==
    /\ pc = "ready" /\ trace.ops < StoreOps
    /\ LET r == IntegratorPostForces(integrator, sim_data)
       IN  /\ sim_data' = r.sd
           /\ pc' = IF r.ok THEN "ready" ELSE "panicked"
    /\ trace' = Noted("post_forces")
    /\ UNCHANGED <<universe, integrator, monitors, arg, result>>

\* integrator.post_step(&mut sim_data)
StorePostStep ==
    /\ pc = "ready" /\ trace.ops < StoreOps
    /\ sim_data' = IntegratorPostStep(integrator, sim_data)
    /\ trace' = Noted("post_step")
    /\ UNCHANGED <<universe, integrator, monitors, pc, arg, result>>

\* force_loop(&force, &mut sim_data, pairs), the indices of pairs being valid
StoreForceLoop(pairs) ==
    /\ pc = "ready" /\ trace.ops < StoreOps
    /\ \A k \in 1..Len(pairs) :
           pairs[k][1] <= NumParticles(sim_data) /\ pairs[k][2] <= NumParticles(sim_data)
    /\ sim_data' = ForceLoop(universe.forces, sim_data, pairs)
    /\ arg' = pairs
    /\ trace' = Noted("force_loop")
    /\ UNCHANGED <<universe, integrator, monitors, pc, result>>

NextStore ==
    \/ \E p \in StoreParticles : StoreAddParticle(p)
    \/ \E ps \in StoreBatches : StoreAddParticles(ps)
    \/ StoreCanonicalPositions
    \/ StorePreForces
    \/ StorePostForces
    \/ StorePostStep
    \/ \E pairs \in StorePairSeqs : StoreForceLoop(pairs)

SpecStore == InitStore /\ [][NextStore]_vars

\* C11: after any sequence of SimData::new, add_particle, add_particles,
\* canonical_positions, integrator hooks and force_loop the arrays radii,
\* masses, positions, velocities and forces all have the length
\* num_particles(), and that length never decreases.
C11_ArraysConsistent ==
    /\ [](/\ Len(sim_data.radii) = NumParticles(sim_data)
          /\ Len(sim_data.masses) = NumParticles(sim_data)
          /\ Len(sim_data.positions) = NumParticles(sim_data)
          /\ Len(sim_data.velocities) = NumParticles(sim_data)
          /\ Len(sim_data.forces) = NumParticles(sim_data))
    /\ [][NumParticles(sim_data') >= NumParticles(sim_data)]_vars

\* C11 witness: three particles are stored and the last of StoreOps operations
\* was a force_loop that left a force.
C11_Witness ==
    /\ trace.ops = StoreOps
    /\ trace.last = "force_loop"
    /\ NumParticles(sim_data) = 3
    /\ sim_data.forces[1] # VectorZero

\* The store `before` with the particles ps appended, each with a zero force.
WithZeroForces(before, ps) ==
    [before EXCEPT
        !.radii = @ \o [k \in 1..Len(ps) |-> ps[k].radius],
        !.masses = @ \o [k \in 1..Len(ps) |-> ps[k].mass],
        !.positions = @ \o [k \in 1..Len(ps) |-> ps[k].position],
        !.velocities = @ \o [k \in 1..Len(ps) |-> ps[k].velocity],
        !.forces = @ \o [k \in 1..Len(ps) |-> VectorZero]]

\* C13: add_particle(p) and add_particles(ps) append the radius, mass, position
\* and velocity of every particle given, and a zero vector to the force buffer
\* whatever force the particle carries.
C13_AddedForceIsZero ==
    /\ trace.last = "add_particle" => sim_data = WithZeroForces(trace.before, <<arg>>)
    /\ trace.last = "add_particles" => sim_data = WithZeroForces(trace.before, arg)

(***************************************************************************)
(* SpecBin: binning a store that canonical_positions() has just returned    *)
(***************************************************************************)
\* create_verlet_lists, lines 101-107: LinkedCells::new_for_simdata with the
\* largest radius, then linked_cells.add_particle for every particle.
CallBinning ==
    /\ pc = "returned"
    /\ LET made == LinkedCellsNewForSimdata(sim_data, MaxRadius(sim_data.radii))
           binned == BinFrom(Unwrap(made.lc), sim_data, 1)
       IN  /\ result' = binned.lc
           /\ pc' = IF binned.ok THEN "binned" ELSE "bin_panicked"
    /\ UNCHANGED <<sim_data, universe, integrator, monitors, arg, trace>>

NextBin == CallCanonicalPositions \/ CallBinning

SpecBin == InitCanon /\ [][NextBin]_vars

\* The 1-based slots of lc.cells that hold the particle id.
CellsHolding(lc, id) ==
    {k \in 1..Len(lc.cells) : \E n \in 1..Len(lc.cells[k]) : lc.cells[k][n] = id}

\* C12: for a store that canonical_positions() has just canonicalized under the
\* periodic topology, binning every particle succeeds, the cell sizes sum to
\* num_particles(), and every particle is in exactly one cell, the one whose
\* index get_cell_indices computes from its position.
C12_BinningTotal ==
    /\ pc # "bin_panicked"
    /\ pc = "binned" =>
           /\ SumSeq([k \in 1..Len(result.cells) |-> Len(result.cells[k])])
                  = NumParticles(sim_data)
           /\ \A id \in 1..NumParticles(sim_data) :
                  LET c == GetCellIndices(result, sim_data.positions[id].x,
                                          sim_data.positions[id].y)
                  IN  CellsHolding(result, id) = {result.num_x * c.iy + c.ix + 1}

(***************************************************************************)
(* SpecTopology: distances and canonicalization under every topology        *)
(***************************************************************************)
\* The topologies of simdata.rs.  SimData::new installs the fully wrapped one;
\* the others reach a store through its public field `topology`.
Topologies ==
    {HarmonicTopology(wx, wy) : wx \in BOOLEAN, wy \in BOOLEAN} \cup {OpenTopology}

InitTopology ==
    /\ \E ps \in CanonStarts, t \in Topologies :
           sim_data = [AddParticles(SimDataNew(CanonLo, CanonHi, CanonLo, CanonHi),
                                    [k \in 1..Len(ps) |->
                                        Particle(ps[k], 1, 1, VectorZero, VectorZero)])
                          EXCEPT !.topology = t]
    /\ pc = "ready"
    /\ arg = sim_data.positions
    /\ result = Unused
    /\ universe = Unused
    /\ integrator = Unused
    /\ monitors = Unused
    /\ trace = Unused

\* The caller evaluates sim_data.distance_sqr_between(id1, id2).
CallDistanceSqrBetween(id1, id2) ==
    /\ pc = "ready"
    /\ id1 <= NumParticles(sim_data) /\ id2 <= NumParticles(sim_data)
    /\ result' = [id1 |-> id1, id2 |-> id2,
                  value |-> DistanceSqrBetween(sim_data, id1, id2)]
    /\ pc' = "measured"
    /\ UNCHANGED <<sim_data, universe, integrator, monitors, arg, trace>>

NextTopology ==
    \/ \E id1, id2 \in 1..2 : CallDistanceSqrBetween(id1, id2)
    \/ CallCanonicalPositions

SpecTopology == InitTopology /\ [][NextTopology]_vars

AllInHalfOpenBounds(sd) ==
    \A i \in 1..NumParticles(sd) : InHalfOpenBounds(sd.bounds, sd.positions[i])

\* The axial distance the topology asks for: min(|d|, length - |d|) on a wrapped
\* axis, |d| on any other.
AxialDistance(wrapped, d, length) ==
    IF wrapped THEN Min(Abs(d), length - Abs(d)) ELSE Abs(d)

\* C14: distance_sqr_between(i, j) is the sum of the squared axial distances,
\* each min(|d|, axis_length - |d|) where the topology wraps the axis and |d|
\* where it does not (stated here for positions inside the bounds).
C14_DistanceFollowsTopology ==
    (pc = "measured" /\ AllInHalfOpenBounds(sim_data)) =>
        LET r1 == sim_data.positions[result.id1]
            r2 == sim_data.positions[result.id2]
            dx == AxialDistance(sim_data.topology.wrap_x, r1.x - r2.x,
                                Width(sim_data.bounds))
            dy == AxialDistance(sim_data.topology.wrap_y, r1.y - r2.y,
                                Height(sim_data.bounds))
        IN  result.value = dx * dx + dy * dy

\* C15: on a store of SimData::new, distance_sqr_between(i, j) equals
\* distance_sqr_between(j, i) and is at most (L/2)^2 + (H/2)^2, L and H the width
\* and height of the bounds, for canonicalized and other positions alike.
C15_DistanceSymmetricAndBounded ==
    (pc = "measured" /\ sim_data.topology = HarmonicTopology(TRUE, TRUE)) =>
        /\ result.value = DistanceSqrBetween(sim_data, result.id2, result.id1)
        /\ 4 * result.value
               <= Width(sim_data.bounds) * Width(sim_data.bounds)
                      + Height(sim_data.bounds) * Height(sim_data.bounds)

\* On every axis the topology wraps, every start lies in [lo, hi).
WrappedAxesInside(sd, starts) ==
    \A i \in 1..Len(starts) :
        /\ sd.topology.wrap_x => (sd.bounds.xlo <= starts[i].x /\ starts[i].x < sd.bounds.xhi)
        /\ sd.topology.wrap_y => (sd.bounds.ylo <= starts[i].y /\ starts[i].y < sd.bounds.yhi)

\* C17: where the topology does not wrap an axis (Open, or Periodic with wrap_x
\* or wrap_y false), canonicalization completes without failure and leaves the
\* coordinate on that axis as it was, out of bounds or not.
C17_UnwrappedAxisUntouched ==
    WrappedAxesInside(sim_data, arg) =>
        /\ pc # "panicked"
        /\ pc = "returned" =>
               \A i \in 1..NumParticles(sim_data) :
                   /\ ~sim_data.topology.wrap_x => sim_data.positions[i].x = arg[i].x
                   /\ ~sim_data.topology.wrap_y => sim_data.positions[i].y = arg[i].y

(***************************************************************************)
(* The head-on overlap scenario (Spec)                                      *)
(***************************************************************************)
\* Two radius-1, mass-1 particles at rest at (4, 5) and (5.5, 5), a zero force
\* buffer, and exactly one step of the first run made.
HeadOnAfterOneStep ==
    /\ trace.start.positions = <<At(8, 10), At(11, 10)>>
    /\ trace.start.velocities = <<VectorZero, VectorZero>>
    /\ sim_data.masses = <<1, 1>>
    /\ sim_data.radii = <<PosScale, PosScale>>
    /\ pc = "loop"
    /\ trace.runs = 1
    /\ trace.steps = 1

OppositeAlongX ==
    /\ sim_data.velocities[1].x = 0 - sim_data.velocities[2].x
    /\ sim_data.velocities[1].y = 0
    /\ sim_data.velocities[2].y = 0

\* C16 (as amended): after exactly one step of the head-on overlap scenario the
\* two velocities are equal and opposite along x with zero y component, the
\* particle at (4, 5) heading to -x and the other to +x; the total momentum is
\* zero; and the two centres are still where they started (the first drift
\* runs on the zero velocities), so their distance is the same as before.
C16_HeadOnFirstStep ==
    HeadOnAfterOneStep =>
        /\ OppositeAlongX
        /\ sim_data.velocities[1].x < 0
        /\ Momentum(sim_data) = VectorZero
        /\ sim_data.positions = trace.start.positions

\* C16 (as stated): after exactly one step of the head-on overlap scenario the
\* two velocities are equal and opposite along x with zero y component, the
\* distance between the two centres is larger than before the step, and the
\* total momentum is zero.
C16_HeadOnMovedApart ==
    HeadOnAfterOneStep =>
        /\ OppositeAlongX
        /\ Momentum(sim_data) = VectorZero
        /\ PlainDistanceSqr(sim_data, 1, 2)
               > PlainDistanceSqr([positions |-> trace.start.positions], 1, 2)

\* C16 witness: the scenario in the bounds (0, 10, 0, 10) after its first step,
\* the two particles moving.
C16_Witness ==
    /\ HeadOnAfterOneStep
    /\ sim_data.bounds = MkBounds(0, 10 * PosScale, 0, 10 * PosScale)
    /\ sim_data.velocities[2].x > 0
    /\ universe.iterations = 1

(***************************************************************************)
(* SpecCells: LinkedCells::new and get_cell_indices                         *)
(***************************************************************************)
CellsSpan == 10       \* the side of the square domain
CellsMaxTarget == 4   \* target sizes 0..CellsMaxTarget

CellsBounds == {MkBounds(0, CellsSpan, 0, CellsSpan), MkBounds(0 - 1, CellsSpan, 2, 5)}

\* arg is the call: bounds, target size and a point of the half-open bounds.
InitCells ==
    /\ \E b \in CellsBounds, s \in 0..CellsMaxTarget :
           \E x \in b.xlo..(b.xhi - 1), y \in b.ylo..(b.yhi - 1) :
               arg = [bounds |-> b, target_size |-> s, point |-> Vector(x, y)]
    /\ pc = "ready"
    /\ result = Unused
    /\ sim_data = Unused
    /\ universe = Unused
    /\ integrator = Unused
    /\ monitors = Unused
    /\ trace = Unused

\* LinkedCells::new(bounds, s), then get_cell_indices(x, y).
CallGetCellIndices ==
    /\ pc = "ready"
    /\ LET made == LinkedCellsNew(arg.bounds, arg.target_size)
       IN  IF made.ok
           THEN /\ result' = [lc |-> Unwrap(made.lc),
                              at |-> GetCellIndices(Unwrap(made.lc), arg.point.x,
                                                    arg.point.y)]
                /\ pc' = "returned"
           ELSE /\ result' = result
                /\ pc' = "panicked"
    /\ UNCHANGED <<sim_data, universe, integrator, monitors, arg, trace>>

NextCells == CallGetCellIndices

SpecCells == InitCells /\ [][NextCells]_vars

\* i = floor(v / (length / n)), written without division.
IsFloorOfQuotient(i, v, length, n) == i * length <= v * n /\ v * n < (i + 1) * length

\* The grid of bounds (0, 10, 0, 10) with target size 3, in thousandths.
GridOfTen == Unwrap(LinkedCellsNew(MkBounds(0, 10000, 0, 10000), 3000).lc)

\* C18: LinkedCells::new(bounds, s) with s > 0 builds max(1, floor(width/s)) by
\* max(1, floor(height/s)) cells of width width/num_x and height height/num_y,
\* and every point with xlo <= x < xhi and ylo <= y < yhi has the cell index
\* ix = floor((x - xlo)/cell_width), iy = floor((y - ylo)/cell_height) with
\* 0 <= ix < num_x and 0 <= iy < num_y; bounds (0, 10, 0, 10) and s = 3 give a
\* 3 x 3 grid with (0, 0) in cell (0, 0) and (9.999, 9.999) in cell (2, 2).
C18_GridAndIndices ==
    /\ arg.target_size > 0 => pc # "panicked"
    /\ pc = "returned" =>
           LET lc == result.lc
               w == Width(arg.bounds)
               h == Height(arg.bounds)
           IN  /\ lc.num_x >= 1 /\ lc.num_x * arg.target_size <= Max(w, arg.target_size)
               /\ (lc.num_x + 1) * arg.target_size > w
               /\ lc.num_y >= 1 /\ lc.num_y * arg.target_size <= Max(h, arg.target_size)
               /\ (lc.num_y + 1) * arg.target_size > h
               /\ lc.cell_width.num * lc.num_x = w * lc.cell_width.den
               /\ lc.cell_height.num * lc.num_y = h * lc.cell_height.den
               /\ Len(lc.cells) = lc.num_x * lc.num_y
               /\ IsFloorOfQuotient(result.at.ix, arg.point.x - arg.bounds.xlo, w, lc.num_x)
               /\ IsFloorOfQuotient(result.at.iy, arg.point.y - arg.bounds.ylo, h, lc.num_y)
               /\ 0 <= result.at.ix /\ result.at.ix < lc.num_x
               /\ 0 <= result.at.iy /\ result.at.iy < lc.num_y
    /\ GridOfTen.num_x = 3 /\ GridOfTen.num_y = 3
    /\ GetCellIndices(GridOfTen, 0, 0) = [ix |-> 0, iy |-> 0]
    /\ GetCellIndices(GridOfTen, 9999, 9999) = [ix |-> 2, iy |-> 2]

\* C18 witness: a grid of more than one column whose cell width is not a whole
\* number, and a point of its last column and last row.
C18_Witness ==
    /\ pc = "returned"
    /\ result.lc.num_x > 1
    /\ Width(arg.bounds) % result.lc.num_x # 0
    /\ result.at.ix = result.lc.num_x - 1
    /\ result.at.iy = result.lc.num_y - 1

(***************************************************************************)
(* SpecIter: the flat iterator over any VerletLists value                   *)
(***************************************************************************)
IterMaxEntries == 3   \* entries of the Vec given to VerletLists::from
IterMaxList == 2      \* ids in the list of one entry
IterMaxNones == 2     \* next() calls made after the first None

IterIds == {0, 1}
IterLists == UNION {[1..n -> IterIds] : n \in 0..IterMaxList}

\* VerletLists::from(value) and into_iter(); entry k is (10 + k, list).
InitIter ==
    /\ \E n \in 0..IterMaxEntries :
           \E lists \in [1..n -> IterLists] :
               arg = [k \in 1..n |-> <<10 + k, lists[k]>>]
    /\ result = [vl |-> VerletListsFrom(arg), it |-> VLIntoIter,
                 yielded |-> <<>>, nones |-> 0]
    /\ pc = "iterating"
    /\ sim_data = Unused
    /\ universe = Unused
    /\ integrator = Unused
    /\ monitors = Unused
    /\ trace = Unused

\* One call of VLIter::next.
IterNext ==
    /\ pc = "iterating"
    /\ result.nones < IterMaxNones
    /\ LET r == VLIterNext(result.vl, result.it)
       IN  IF ~r.ok
           THEN /\ pc' = "panicked"
                /\ result' = result
           ELSE /\ pc' = pc
                /\ result' = [result EXCEPT
                                 !.it = r.it,
                                 !.yielded = IF IsSome(r.item)
                                             THEN Append(@, Unwrap(r.item)) ELSE @,
                                 !.nones = IF IsSome(r.item) THEN @ ELSE @ + 1]
    /\ UNCHANGED <<sim_data, universe, integrator, monitors, arg, trace>>

NextIter == IterNext

SpecIter == InitIter /\ [][NextIter]_vars

\* The pairs of the entries in order: those of the first entry in list order,
\* then those of the second, and so on.
PairsInOrder(entries) ==
    ConcatAll([k \in 1..Len(entries) |->
                  [n \in 1..Len(entries[k][2]) |-> <<entries[k][1], entries[k][2][n]>>]])

\* C19: for a VerletLists built from any entries, entries with an empty list
\* included, num_pairs is the sum of the list lengths, and the flat iterator
\* yields the pairs of the entries in order, num_pairs of them, then None, and
\* None again on every later call.
C19_FlatIteration ==
    /\ pc # "panicked"
    /\ result.vl.num_pairs = SumSeq([k \in 1..Len(arg) |-> Len(arg[k][2])])
    /\ IsPrefix(result.yielded, PairsInOrder(arg))
    /\ result.nones > 0 =>
           /\ result.yielded = PairsInOrder(arg)
           /\ Len(result.yielded) = result.vl.num_pairs

(***************************************************************************)
(* Periodic canonicalization as reduction modulo the axis length (SpecCanon) *)
(***************************************************************************)
\* a and b differ by an integer multiple of length.
SameModulo(a, b, length) == (a - b) % length = 0

\* The tests of test_harmonic_topology, in hundredths, on bounds (0, 10, 0, 10).
HarmonicTestBounds == MkBounds(0, 1000, 0, 1000)
HarmonicTestMoves(from, to) ==
    CanonicalPosition(HarmonicTopology(TRUE, TRUE), from, HarmonicTestBounds)
        = [pos |-> to, ok |-> TRUE]

\* What the call leaves when it returns: every position differs from its start
\* by whole axis lengths, a start inside the bounds stays, and a second call
\* changes nothing.
ReducedModuloAxes ==
    /\ \A i \in 1..NumParticles(sim_data) :
           /\ SameModulo(sim_data.positions[i].x, arg[i].x, Width(sim_data.bounds))
           /\ SameModulo(sim_data.positions[i].y, arg[i].y, Height(sim_data.bounds))
           /\ InHalfOpenBounds(sim_data.bounds, arg[i]) => sim_data.positions[i] = arg[i]
    /\ CanonicalPositions(sim_data) = [sd |-> sim_data, ok |-> TRUE]

\* C20: under the fully wrapped topology, for any input (x, y) canonicalization
\* gives a result that differs from the input by an integer multiple of the
\* width in x and of the height in y, returns a point already inside the
\* bounds unchanged, and is idempotent; on (0,10,0,10) it takes (-1, 3.2) to
\* (9, 3.2), (10.92, 4) to (0.92, 4) and (0.3, -0.2) to (0.3, 9.8).
C20_CanonicalIsModuloReduction ==
    /\ pc # "ready" => pc = "returned" /\ ReducedModuloAxes
    /\ HarmonicTestMoves(Vector(0 - 100, 320), Vector(900, 320))
    /\ HarmonicTestMoves(Vector(1092, 400), Vector(92, 400))
    /\ HarmonicTestMoves(Vector(30, 0 - 20), Vector(30, 980))

(***************************************************************************)
(* Repeated run_until calls (Spec)                                          *)
(***************************************************************************)
\* A run_until call has returned on a Universe whose max_iterations is None, as
\* Universe::new leaves it.
RunUntilReturned ==
    /\ pc = "idle"
    /\ trace.runs > 0
    /\ ~IsSome(universe.max_iterations)

\* C23: every run_until(t) call, a call made after an earlier run_until call
\* has returned included, sets max_time to t, runs the step loop, and returns
\* with simulation_time > t.
C23_EveryRunUntilRunsPastT ==
    RunUntilReturned =>
        /\ universe.max_time = arg
        /\ trace.steps > 0
        /\ sim_data.simulation_time > Unwrap(arg)

(***************************************************************************)
(* SpecPair: HardSphereForce::calculate_forces on one pair                  *)
(***************************************************************************)
PairReach == 3        \* the second disk lies up to PairReach ticks from the first

\* Radii in position ticks: a quarter, a half and a whole length unit, so that
\* the sum of two radii is below, at and above one length unit.
PairRadii == {1, PosScale \div 2, PosScale}
PairRepulsions == {Repulsion, 3 * Repulsion}
PairSide == DomainSide * PosScale
\* The first disk sits in the corner of the domain (its neighbours lie across
\* the periodic seam) or in the middle.
PairAnchors == {Vector(0, 0), Vector(PairSide \div 2, PairSide \div 2)}
PairOffsets == {Vector(dx, dy) : dx \in (0 - PairReach)..PairReach,
                                 dy \in (0 - PairReach)..PairReach} \ {VectorZero}

\* Two particles at distinct canonical positions; arg is the pair (id1, id2) of
\* the call, result the force buffer before it.
InitPair ==
    /\ \E a \in PairAnchors, d \in PairOffsets, r1 \in PairRadii, r2 \in PairRadii :
           sim_data = AddParticles(
                          SimDataNew(0, PairSide, 0, PairSide),
                          <<Particle(a, r1, 1, VectorZero, VectorZero),
                            Particle(Vector((a.x + d.x + PairSide) % PairSide,
                                            (a.y + d.y + PairSide) % PairSide),
                                     r2, 1, VectorZero, VectorZero)>>)
    /\ \E k \in PairRepulsions :
           universe = [UniverseNew EXCEPT !.forces = HardSphereForce(k)]
    /\ arg \in {<<1, 2>>, <<2, 1>>}
    /\ result = sim_data.forces
    /\ pc = "ready"
    /\ integrator = Unused
    /\ monitors = Unused
    /\ trace = Unused

\* The caller runs force.calculate_forces(&mut sim_data, id1, id2).
CallCalculateForces ==
    /\ pc = "ready"
    /\ sim_data' = CalculateForces(universe.forces, sim_data, arg[1], arg[2])
    /\ pc' = "returned"
    /\ UNCHANGED <<universe, integrator, monitors, arg, result, trace>>

NextPair == CallCalculateForces

SpecPair == InitPair /\ [][NextPair]_vars

\* The minimum-image representative of a coordinate difference d on an axis of
\* the given length.
MinimumImage(d, length) ==
    IF 2 * Abs(d) <= length THEN d
    ELSE IF d > 0 THEN d - length ELSE d + length

\* The minimum-image separation from particle j to particle i.
SeparationFrom(sd, j, i) ==
    Vector(MinimumImage(sd.positions[i].x - sd.positions[j].x, Width(sd.bounds)),
           MinimumImage(sd.positions[i].y - sd.positions[j].y, Height(sd.bounds)))

\* f has a component along s and none against it.
PointsAlong(f, s) ==
    /\ f.x * s.x + f.y * s.y > 0
    /\ f.x * s.x >= 0
    /\ f.y * s.y >= 0

Overlapping(sd, i, j) ==
    DistanceSqrBetween(sd, i, j) < (sd.radii[i] + sd.radii[j]) * (sd.radii[i] + sd.radii[j])

\* C22: for a pair of distinct positions with distance_sqr(i, j) below the
\* square of the sum of the radii, whatever the positive radii and repulsion,
\* the force HardSphereForce adds to i points away from j along the
\* minimum-image separation and the force added to j points away from i; a
\* pair that does not overlap receives no contribution.
C22_HardSphereRepulsive ==
    pc = "returned" =>
        IF Overlapping(sim_data, 1, 2)
        THEN /\ PointsAlong(sim_data.forces[1], SeparationFrom(sim_data, 2, 1))
             /\ PointsAlong(sim_data.forces[2], SeparationFrom(sim_data, 1, 2))
        ELSE sim_data.forces = result

(***************************************************************************)
(* SpecRun: one run_until call, for any timestep the constructors accept    *)
(***************************************************************************)
RunMaxT == 3          \* the largest time handed to run_until, in time ticks
RunHorizon == 3       \* the model stops counting iterations above RunHorizon
                      \* and simulation time below -RunHorizon

\* VelocityVerlet { dt } and OverdampedIntegrator::new(dt, damping_constant)
\* take any f64: negative, zero and positive timesteps.
RunDts == (0 - 1)..MaxDt
RunUntilTimes == {0 - 1, 0, RunMaxT}
RunIntegrators ==
    {VelocityVerlet(dt) : dt \in RunDts}
        \cup {OverdampedIntegratorNew(dt, 5) : dt \in RunDts}

\* Two disks of radius 1, far apart or overlapping head-on.
RunApart == <<At(4, 10), At(16, 10)>>
RunTouching == <<At(8, 10), At(11, 10)>>

\* Universe::new, with_integrator, sim_data.add_particles; no monitors.  With a
\* negative timestep the disks are apart and at rest, so that nothing but the
\* simulation time changes from step to step.
InitRun ==
    /\ integrator \in RunIntegrators
    /\ \E lay \in {RunApart, RunTouching}, vel \in StartVelocities :
           /\ integrator.dt < 0 => (lay = RunApart /\ vel[1] = VectorZero)
           /\ sim_data = AddParticles(
                             SimDataNew(0, DomainSide * PosScale, 0, DomainSide * PosScale),
                             [k \in 1..2 |->
                                 Particle(lay[k], PosScale, 1, vel[k], VectorZero)])
    /\ universe = UniverseNew
    /\ monitors = Unused
    /\ pc = "ready"
    /\ arg = None
    /\ result = Unused
    /\ trace = Unused

\* Universe::run_until(time): self.max_time = Some(time); self.run() begins.
RunUntilCall(time) ==
    /\ pc = "ready"
    /\ universe' = [universe EXCEPT !.max_time = Some(time)]
    /\ arg' = Some(time)
    /\ pc' = "entry"
    /\ UNCHANGED <<sim_data, integrator, monitors, result, trace>>

\* run: self.sim_data.canonical_positions() before the loop.
RunEntry ==
    /\ pc = "entry"
    /\ LET r == CanonicalPositions(sim_data)
       IN  /\ sim_data' = r.sd
           /\ pc' = IF r.ok THEN "loop" ELSE "panicked"
    /\ UNCHANGED <<universe, integrator, monitors, arg, result, trace>>

\* The hooks of one pass of the loop of run, without monitors: pre_forces,
\* forces, post_forces, post_step; ok is FALSE when one of them panics.
StepHooks(u, ig, sd) ==
    LET pre == IntegratorPreForces(ig, sd)
        made == CreateVerletLists(pre.sd, UniverseCutoff)
        flat == FlatPairs(made.vl)
        post == IntegratorPostForces(ig, ForceLoop(u.forces, pre.sd, flat.pairs))
    IN  IF ~pre.ok THEN [sd |-> pre.sd, ok |-> FALSE]
        ELSE IF ~(made.ok /\ flat.ok) THEN [sd |-> pre.sd, ok |-> FALSE]
        ELSE IF ~post.ok THEN post
        ELSE [sd |-> IntegratorPostStep(ig, post.sd), ok |-> TRUE]

\* Times below -RunHorizon are kept as -RunHorizon, iteration counts above
\* RunHorizon as RunHorizon: every max_time of RunUntilTimes lies above the one, and
\* max_iterations is None.
Horizon(sd) == [sd EXCEPT !.simulation_time = Max(@, 0 - RunHorizon)]
CountedIterations(n) == Min(n, RunHorizon)

\* run: `while self.is_running` holds, the body of the loop begins.
RunBeginStep ==
    /\ pc = "loop"
    /\ universe.is_running
    /\ pc' = "body"
    /\ UNCHANGED <<sim_data, universe, integrator, monitors, arg, result, trace>>

\* run: the body of the loop, from pre_step to the termination checks.
RunStep ==
    /\ pc = "body"
    /\ LET r == StepHooks(universe, integrator, sim_data)
       IN  IF r.ok
           THEN /\ sim_data' = Horizon(r.sd)
                /\ universe' = CheckTermination(
                                   [universe EXCEPT
                                       !.iterations = CountedIterations(@ + 1)],
                                   r.sd)
                /\ pc' = "loop"
           ELSE /\ sim_data' = r.sd
                /\ pc' = "panicked"
                /\ UNCHANGED universe
    /\ UNCHANGED <<integrator, monitors, arg, result, trace>>

\* run: `while self.is_running` fails, run and run_until return.
RunReturn ==
    /\ pc = "loop"
    /\ ~universe.is_running
    /\ pc' = "returned"
    /\ UNCHANGED <<sim_data, universe, integrator, monitors, arg, result, trace>>

NextRun ==
    \/ \E time \in RunUntilTimes : RunUntilCall(time)
    \/ RunEntry
    \/ RunBeginStep
    \/ RunStep
    \/ RunReturn

SpecRun == InitRun /\ [][NextRun]_vars

\* The thread inside run_until keeps executing: at the entry of run, at the
\* test of the loop and in its body the next step of NextRun is always possible
\* and always moves pc.
RunPcs == {"ready", "entry", "loop", "body", "returned", "panicked"}
ThreadMoves ==
    /\ pc \in {"entry", "loop", "body"}
    /\ pc' \in RunPcs \ {pc}

SpecRunFair == SpecRun /\ WF_pc(ThreadMoves)

\* C21: for every t and every integrator the constructors give (a timestep
\* dt <= 0 included, which they do not reject), a run_until(t) call on a
\* Universe with is_running = true eventually ends, and when it returns the
\* step loop has reached simulation_time > t.  A panic inside a hook counts as
\* an end of the call here: only a loop that never stops violates the formula.
C21_RunUntilReturns ==
    /\ (pc = "entry") ~> (pc \in {"returned", "panicked"})
    /\ [](pc = "returned" => sim_data.simulation_time > Unwrap(arg))

====
